---- MODULE Spec2Model ----
(***************************************************************************)
(* A model of taskmaster, a client library for the Windows Task Scheduler  *)
(* service (package taskmaster: manage.go, errors.go).                      *)
(*                                                                         *)
(* Strings are sequences of one-character strings, so that the code's byte *)
(* operations (path[0], strings.LastIndex, path[:i]) are modelled on the   *)
(* characters.  32-bit codes are pairs <<high 16 bits, low 16 bits>>.      *)
(***************************************************************************)
EXTENDS Integers, Sequences, FiniteSets, TLC

VARIABLES
    build,            \* which translator file the package is built with
    emptyPathIsRoot,  \* whether the service resolves the path "" to the root folder
    folders,          \* the service's folders (paths), the root excluded
    tasks,            \* the service's registered tasks: path -> stored definition
    res,              \* what the last operation returned, with its native-call log
    tx,               \* the last run of an error translator
    t,                \* the caller's TaskService value
    handles,          \* each native handle: whether acquired, how often released
    ctx,              \* the thread's native-call context and the calls made so far
    cres              \* what the last ConnectWithOptions / Disconnect did

vars == <<build, emptyPathIsRoot, folders, tasks, res, tx, t, handles, ctx, cres>>

(***************************************************************************)
(* Bounds.                                                                 *)
(***************************************************************************)
\* At most this many registered tasks exist at a time.
MaxTasks == 2
\* A failure is injected into one of the first MaxFailAt native calls of an operation.
MaxFailAt == 12
\* At most this many ConnectWithOptions calls in a run.
MaxConnects == 2
\* At most this many Disconnect calls in a row.
MaxDisconnects == 2

\* Names of folders and of tasks; one character each.
FolderNames == {"A", "B"}
TaskNames == {"X"}

(***************************************************************************)
(* Errors (errors.go).  An error value is a record: a sentinel (kind is    *)
(* the variable's name), a syscall.Errno (kind "Errno", with its code), or *)
(* a fresh error made by errors.New / fmt.Errorf (kind "errorString", with *)
(* its text: the format's prefix and the kinds of the errors formatted     *)
(* into it with %v; such an error does not wrap its arguments).            *)
(***************************************************************************)
NoCode == <<>>

U32(hi, lo) == <<hi, lo>>

Code0 == U32(0, 0)
Code5 == U32(0, 5)
Code50 == U32(0, 50)
Code53 == U32(0, 53)
\* 0x80070032
Code80070032 == U32(32775, 50)
\* 0x8004130B
Code8004130B == U32(32772, 4875)
\* 0x80020009, DISP_E_EXCEPTION: what IDispatch.Invoke reports for a raised exception
Code80020009 == U32(32770, 9)

Codes == {Code0, Code5, Code50, Code53, Code80070032, Code8004130B, Code80020009}

nil == [kind |-> "nil", code |-> NoCode, text |-> <<>>]

Sentinel(name) == [kind |-> name, code |-> NoCode, text |-> <<>>]

ErrTargetUnsupported == Sentinel("ErrTargetUnsupported")
ErrConnectionFailure == Sentinel("ErrConnectionFailure")
ErrInvalidPath == Sentinel("ErrInvalidPath")
ErrNoActions == Sentinel("ErrNoActions")
ErrInvalidPrincipal == Sentinel("ErrInvalidPrincipal")
ErrRunningTaskCompleted == Sentinel("ErrRunningTaskCompleted")

\* syscall.Errno(errCode)
Errno(c) == [kind |-> "Errno", code |-> c, text |-> <<>>]

\* errors.New(text)
New(text) == [kind |-> "errorString", code |-> NoCode, text |-> <<text>>]

\* fmt.Errorf(prefix + "%v", e): a new error holding e's text, not e itself
Errorf(prefix, e) ==
    [kind |-> "errorString", code |-> NoCode, text |-> <<prefix, e.kind>> \o e.text]

(***************************************************************************)
(* A failure of the native boundary: err is an *ole.OleError or not; an    *)
(* OleError has a direct code and a sub-error, which is nil, an            *)
(* ole.EXCEPINFO (with its SCODE) or something else.                       *)
(***************************************************************************)
Failure(ole, code, sub, scode) == [ole |-> ole, code |-> code, sub |-> sub, scode |-> scode]

NotOle == Failure(FALSE, Code0, "nil", Code0)

Failures ==
    {NotOle}
    \cup {Failure(TRUE, c, s, Code0) : c \in Codes, s \in {"nil", "other"}}
    \cup {Failure(TRUE, c, "EXCEPINFO", sc) : c \in Codes, sc \in Codes}

Builds == {"errors.go", "part_000"}

\* errors.go: getOLEErrorCode, as <<code, error>>
getOLEErrorCode_errors(err) ==
    IF err.ole
    THEN IF err.sub = "EXCEPINFO"
         THEN <<err.scode, nil>>
         ELSE <<err.code, New("failed to extract OLE sub-error code")>>
    ELSE <<Code0, New("failed to extract OLE error code")>>

\* part_000: getOLEErrorCode, as <<code, error>>
getOLEErrorCode_part(err) ==
    IF err.ole /\ err.code # Code0
    THEN <<err.code, nil>>
    ELSE IF err.ole /\ err.sub = "EXCEPINFO"
         THEN <<err.scode, nil>>
         ELSE <<Code0, New("could not determine OLE error code")>>

getOLEErrorCode(b, err) ==
    IF b = "errors.go" THEN getOLEErrorCode_errors(err) ELSE getOLEErrorCode_part(err)

\* The switch of getTaskSchedulerError on the decoded code.
SchedulerSwitch_swapped(errCode) ==
    IF errCode = Code50 THEN ErrConnectionFailure
    ELSE IF errCode \in {Code80070032, Code53} THEN ErrTargetUnsupported
    ELSE Errno(errCode)

SchedulerSwitch(errCode) ==
    IF errCode = Code50 THEN ErrTargetUnsupported
    ELSE IF errCode \in {Code80070032, Code53} THEN ErrConnectionFailure
    ELSE Errno(errCode)

\* What the translator returns when the code could not be extracted.
ExtractionFailure(b, prefix, parseErr) ==
    IF b = "errors.go"
    THEN parseErr
    ELSE Errorf(prefix, parseErr)

getTaskSchedulerError(b, err) ==
    LET r == getOLEErrorCode(b, err)
    IN  IF r[2] # nil
        THEN ExtractionFailure(b, "task scheduler error: (unable to get specific error code: )", r[2])
        ELSE SchedulerSwitch(r[1])

\* The test of getRunningTaskError on the decoded code.
RunningSwitch(errCode) ==
    IF errCode = Code8004130B THEN ErrRunningTaskCompleted ELSE Errno(errCode)

getRunningTaskError(b, err) ==
    LET r == getOLEErrorCode(b, err)
    IN  IF r[2] # nil
        THEN ExtractionFailure(b, "running task error: (unable to get specific error code: )", r[2])
        ELSE RunningSwitch(r[1])

(***************************************************************************)
(* Paths.  The root folder is the separator itself; a folder below it is   *)
(* \A or \A\B, a task \X, \A\X or \A\B\X.                                  *)
(***************************************************************************)
BS == "\\"

Root == <<BS>>

\* The folders the service may hold: \A, \B and \A\B.
FolderUniverse == {<<BS, "A">>, <<BS, "B">>, <<BS, "A", BS, "B">>}

TaskUniverse == {(IF f = Root THEN <<>> ELSE f) \o <<BS, x>> : f \in FolderUniverse \cup {Root}, x \in TaskNames}

\* strings.LastIndex(path, `\`): the 0-based index of the last separator, or -1
LastIndex(path) ==
    LET I == {i \in 1..Len(path) : path[i] = BS}
    IN  IF I = {} THEN -1 ELSE (CHOOSE i \in I : \A j \in I : j <= i) - 1

\* path[:nameIndex]
folderPathOf(path) == SubSeq(path, 1, LastIndex(path))

\* The guard every path-taking operation starts with: path[0] != '\\'.
\* Indexing the empty string panics (index out of range).
pathCheck(path) ==
    IF Len(path) = 0 THEN "panic"
    ELSE IF path[1] # BS THEN "invalid"
    ELSE "ok"

(***************************************************************************)
(* The Task Scheduler service, as the library sees it through the native   *)
(* object bridge: a tree of folders, each with the tasks registered in it. *)
(***************************************************************************)
\* The folder a folder or task lives in.
NativeParent(p) == IF LastIndex(p) = 0 THEN Root ELSE SubSeq(p, 1, LastIndex(p))

\* The folder a path names, or <<>> when it names none.
NativeFolder(fs, p) ==
    IF p = Root \/ p \in fs THEN p
    ELSE IF p = <<>> /\ emptyPathIsRoot THEN Root
    ELSE <<>>

NativeChildFolders(fs, f) == {g \in fs : NativeParent(g) = f}

NativeTasksIn(ts, f) == {p \in DOMAIN ts : NativeParent(p) = f}

\* Whether folder or task g is f or lies below folder f.
AtOrBelow(g, f) ==
    \/ f = Root
    \/ /\ Len(g) >= Len(f)
       /\ SubSeq(g, 1, Len(f)) = f
       /\ (Len(g) = Len(f) \/ g[Len(f) + 1] = BS)

\* All folders at or below f.
NativeSubtree(fs, f) == {g \in fs \cup {Root} : AtOrBelow(g, f)}

\* The order in which the service enumerates a collection: by the rank of
\* the last character of each member's path in ord, a permutation of the names.
NameOrders(S) ==
    {o \in [1..Cardinality(S) -> S] : \A i, j \in DOMAIN o : i # j => o[i] # o[j]}

Orders == {a \o b : a \in NameOrders(FolderNames), b \in NameOrders(TaskNames)}

Rank(ord, p) == CHOOSE i \in DOMAIN ord : ord[i] = p[Len(p)]

RECURSIVE Enumerate(_, _)
Enumerate(S, ord) ==
    IF S = {} THEN <<>>
    ELSE LET first == CHOOSE x \in S : \A y \in S : Rank(ord, x) <= Rank(ord, y)
         IN  <<first>> \o Enumerate(S \ {first}, ord)

(***************************************************************************)
(* The native-call log of one operation.  An entry names the method or     *)
(* property used (or Acquire / Release of a handle), the kind of object    *)
(* and its path.  A native failure is a Failure record; NoFailure is its   *)
(* absence.  fi = [at, f] injects failure f into the at-th native call of  *)
(* the operation (at = 0: none): the service may fail any call.            *)
(***************************************************************************)
NoFailure == [ole |-> FALSE, code |-> NoCode, sub |-> "none", scode |-> NoCode]

\* What go-ole's Invoke returns for an exception raised by the service:
\* an OleError with code DISP_E_EXCEPTION and the EXCEPINFO holding the SCODE.
NativeErr(scode) == Failure(TRUE, Code80020009, "EXCEPINFO", scode)

\* 0x80070002: the service finds no such folder or task
Code80070002 == U32(32775, 2)
\* 0x800700B7: the service already has a task or folder of that path
Code800700B7 == U32(32775, 183)
\* 0x80070091: the folder is not empty
Code80070091 == U32(32775, 145)

Ev(m, kind, path) == [m |-> m, kind |-> kind, path |-> path]

IsCall(e) == e.m \notin {"Acquire", "Release"}

NCalls(log) == Cardinality({i \in DOMAIN log : IsCall(log[i])})

NoInject == [at |-> 0, f |-> NoFailure]

\* The outcome of the next native call: the injected failure when this is
\* the call that fails, else the service's own outcome.
Outcome(fi, log, own) == IF fi.at = NCalls(log) + 1 THEN fi.f ELSE own

(***************************************************************************)
(* The connection (manage.go: initialize, ConnectWithOptions, Disconnect). *)
(* The k-th ConnectWithOptions call acquires the handles <<k, "unk">> (the *)
(* created ITaskService object), <<k, "svc">> (its IDispatch) and          *)
(* <<k, "root">> (the root folder).                                        *)
(***************************************************************************)
NilHandle == <<0, "nil">>

HandleIds == {<<k, h>> : k \in 1..MaxConnects, h \in {"unk", "svc", "root"}}

\* TaskService{}
ZeroTaskService ==
    [isInitialized |-> FALSE, isConnected |-> FALSE,
     connectedDomain |-> <<>>, connectedComputerName |-> <<>>, connectedUser |-> <<>>,
     taskServiceObj |-> NilHandle, rootFolderObj |-> NilHandle]

\* What os.Hostname() and user.Current() give on the calling machine.
LocalHost == <<"H">>
CurrentUsername == <<"H", BS, "u">>

\* strings.Split(s, `\`)[1]: the part after the first separator, up to the next
SplitSecond(s) ==
    LET first == CHOOSE i \in 1..Len(s) : s[i] = BS /\ \A j \in 1..(i - 1) : s[j] # BS
        rest == SubSeq(s, first + 1, Len(s))
        stop == {i \in 1..Len(rest) : rest[i] = BS}
    IN  IF stop = {} THEN rest
        ELSE SubSeq(rest, 1, (CHOOSE i \in stop : \A j \in stop : i <= j) - 1)

Acquire(hs, id) == [hs EXCEPT ![id].acq = TRUE]

Release(hs, id) == [hs EXCEPT ![id].rel = @ + 1]

\* The steps of ConnectWithOptions that can fail.
ConnectSteps ==
    {"none", "CoInitializeEx", "ClassIDFrom", "CreateInstance", "nilObject",
     "Connect", "Hostname", "Current", "GetFolder"}

\* A raw error of the native boundary or of the operating system, untranslated.
Raw(f) == [kind |-> "raw", code |-> f.code, text |-> <<f.sub>>]

\* S_FALSE: CoInitializeEx was already called on this thread.
S_OK == U32(0, 0)
S_FALSE == U32(0, 1)

\* The failures ConnectWithOptions is run against.
ConnFailures ==
    {NotOle, Failure(TRUE, S_FALSE, "nil", Code0), Failure(TRUE, Code50, "nil", Code0),
     NativeErr(Code50), NativeErr(Code53), NativeErr(Code80070032), NativeErr(Code5)}

\* initialize(): <<err, t, handles, ctx>> for connection number k.  An error
\* of CoInitializeEx with code S_OK or S_FALSE is no failure.
initialize(b, k, failAt, f, hs, cx) ==
    IF failAt = "CoInitializeEx" /\ f.code \notin {S_OK, S_FALSE}
    THEN <<Raw(f), ZeroTaskService, hs, cx>>
    ELSE LET cx1 == [cx EXCEPT !.inits = @ + 1]
             cxU == [cx1 EXCEPT !.teardowns = @ + 1]
         IN  IF failAt \in {"ClassIDFrom", "CreateInstance"}
             THEN <<getTaskSchedulerError(b, f), ZeroTaskService, hs, cxU>>
             ELSE IF failAt = "nilObject"
             THEN <<New("Could not create ITaskService object"), ZeroTaskService, hs, cxU>>
             ELSE <<nil,
                    [ZeroTaskService EXCEPT !.taskServiceObj = <<k, "svc">>,
                                            !.isInitialized = TRUE],
                    Release(Acquire(Acquire(hs, <<k, "unk">>), <<k, "svc">>), <<k, "unk">>),
                    cx1>>

\* ConnectWithOptions: <<err, TaskService, handles, ctx>>
ConnectWithOptions(b, k, serverName, domain, username, failAt, f, hs, cx) ==
    LET i == initialize(b, k, failAt, f, hs, cx)
        ts == i[2]
        server2 == IF serverName = <<>> THEN LocalHost ELSE serverName
        domain2 == IF domain = <<>> THEN server2 ELSE domain
        user2 == IF username = <<>> THEN SplitSecond(CurrentUsername) ELSE username
    IN  IF i[1] # nil
        THEN <<Errorf("error initializing ITaskService object: ", i[1]), ZeroTaskService, i[3], i[4]>>
        ELSE IF failAt = "Connect"
        THEN <<Errorf("error connecting to Task Scheduler service: ", getTaskSchedulerError(b, f)),
               ZeroTaskService, i[3], i[4]>>
        ELSE IF failAt = "Hostname" /\ serverName = <<>>
        THEN <<Raw(f), ZeroTaskService, i[3], i[4]>>
        ELSE IF failAt = "Current" /\ username = <<>>
        THEN <<Raw(f), ZeroTaskService, i[3], i[4]>>
        ELSE IF failAt = "GetFolder"
        THEN <<Errorf("error getting the root folder: ", getTaskSchedulerError(b, f)),
               ZeroTaskService, i[3], i[4]>>
        ELSE <<nil,
               [ts EXCEPT !.connectedDomain = domain2,
                          !.connectedComputerName = server2,
                          !.connectedUser = user2,
                          !.rootFolderObj = <<k, "root">>,
                          !.isConnected = TRUE],
               Acquire(i[3], <<k, "root">>), i[4]>>

\* A Disconnect that releases nothing.
DisconnectHandles_none(tt, hs) == hs

\* Disconnect: the releases of a connected TaskService
DisconnectHandles(tt, hs) ==
    IF tt.isConnected
    THEN Release(Release(hs, tt.taskServiceObj), tt.rootFolderObj)
    ELSE hs

\* Disconnect: the teardown of an initialized TaskService
DisconnectContext(tt, cx) ==
    IF tt.isInitialized THEN [cx EXCEPT !.teardowns = @ + 1] ELSE cx

\* Disconnect: the flags it resets
DisconnectFlags_kept(tt) == tt

DisconnectFlags(tt) == [tt EXCEPT !.isInitialized = FALSE, !.isConnected = FALSE]

(***************************************************************************)
(* The connection's life cycle: ConnectWithOptions and Disconnect on the   *)
(* caller's variable t.                                                    *)
(***************************************************************************)
NoHandles == [id \in HandleIds |-> [acq |-> FALSE, rel |-> 0]]

NoContext == [inits |-> 0, teardowns |-> 0, connects |-> 0, disconnects |-> 0]

NoConnResult ==
    [op |-> "none", err |-> nil, failAt |-> "none", f |-> NotOle, before |-> ZeroTaskService]

NoTranslation == [fn |-> "none", in |-> NotOle, decoded |-> <<Code0, nil>>, out |-> nil]

Connect ==
    /\ ctx.connects < MaxConnects
    /\ \E serverName \in {<<>>, <<"S">>}, username \in {<<>>, <<"b">>},
          failAt \in ConnectSteps, f \in ConnFailures :
        LET k == ctx.connects + 1
            r == ConnectWithOptions(build, k, serverName, <<>>, username, failAt, f, handles, ctx)
        IN  /\ failAt # "none" \/ f = NotOle
            /\ t' = r[2]
            /\ handles' = r[3]
            /\ ctx' = [r[4] EXCEPT !.connects = k, !.disconnects = 0]
            /\ cres' = [op |-> "Connect", err |-> r[1], failAt |-> failAt, f |-> f, before |-> t]
    /\ UNCHANGED <<build, emptyPathIsRoot, folders, tasks, res, tx>>

Disconnect ==
    /\ ctx.disconnects < MaxDisconnects
    /\ handles' = DisconnectHandles(t, handles)
    /\ ctx' = [DisconnectContext(t, ctx) EXCEPT !.disconnects = @ + 1]
    /\ t' = DisconnectFlags(t)
    /\ cres' = [op |-> "Disconnect", err |-> nil, failAt |-> "none", f |-> NotOle, before |-> t]
    /\ UNCHANGED <<build, emptyPathIsRoot, folders, tasks, res, tx>>

(***************************************************************************)
(* The error translators, run on every failure of the native boundary.     *)
(***************************************************************************)
TranslateScheduler ==
    /\ \E f \in Failures :
        tx' = [fn |-> "getTaskSchedulerError", in |-> f,
               decoded |-> getOLEErrorCode(build, f), out |-> getTaskSchedulerError(build, f)]
    /\ UNCHANGED <<build, emptyPathIsRoot, folders, tasks, res, t, handles, ctx, cres>>

TranslateRunning ==
    /\ \E f \in Failures :
        tx' = [fn |-> "getRunningTaskError", in |-> f,
               decoded |-> getOLEErrorCode(build, f), out |-> getRunningTaskError(build, f)]
    /\ UNCHANGED <<build, emptyPathIsRoot, folders, tasks, res, t, handles, ctx, cres>>

(***************************************************************************)
(* Task definitions and registered tasks.  A Definition is modelled by the *)
(* fields the validator and modifyTask read: the number of actions and the *)
(* principal's UserID and GroupID.  The service stores, per task path, the *)
(* principal it was registered with.                                       *)
(***************************************************************************)
Definition(n, user, group) == [Actions |-> n, UserID |-> user, GroupID |-> group]

Definitions ==
    {Definition(1, <<>>, <<>>), Definition(1, <<"b">>, <<>>), Definition(1, <<>>, <<"g">>),
     Definition(0, <<"b">>, <<>>), Definition(1, <<"b">>, <<"g">>)}

\* validateDefinition(def)
validateDefinition(def) ==
    IF def.Actions = 0 THEN ErrNoActions
    ELSE IF def.UserID # <<>> /\ def.GroupID # <<>> THEN ErrInvalidPrincipal
    ELSE nil

\* RegisteredTask{}
ZeroTask == [Name |-> <<>>, Path |-> <<>>, UserID |-> <<>>, GroupID |-> <<>>]

\* The RegisteredTask parsed from the service's task at path p.
ParsedTask(ts, p) ==
    [Name |-> SubSeq(p, LastIndex(p) + 2, Len(p)), Path |-> p,
     UserID |-> ts[p].UserID, GroupID |-> ts[p].GroupID]

\* TaskFolder{}
ZeroFolder == [Name |-> <<>>, Path |-> <<>>, RegisteredTasks |-> <<>>, SubFolders |-> <<>>]

\* TASK_CREATE and TASK_UPDATE of TaskCreationFlags
TASK_CREATE == "TASK_CREATE"
TASK_UPDATE == "TASK_UPDATE"

(***************************************************************************)
(* The run of one operation: s = [log, fail, folders, tasks] is the log so *)
(* far, the outcome of the last native call and the service's state.       *)
(***************************************************************************)
Start ==
    [log |-> <<>>, fail |-> NoFailure, folders |-> folders, tasks |-> tasks, handed |-> <<>>]

\* A native call (oleutil.CallMethod, a property read, a parse of a native object).
Do(s, fi, m, kind, path, own) ==
    [s EXCEPT !.log = Append(@, Ev(m, kind, path)), !.fail = Outcome(fi, s.log, own)]

Acq(s, kind, path) == [s EXCEPT !.log = Append(@, Ev("Acquire", kind, path))]

Rel(s, kind, path) == [s EXCEPT !.log = Append(@, Ev("Release", kind, path))]

Failed(s) == s.fail # NoFailure

\* What an operation returns: its error (or a panic), its values, and the
\* log and service state it leaves.
Return(s) ==
    [err |-> nil, panic |-> FALSE, task |-> ZeroTask, flag |-> FALSE, list |-> <<>>,
     tree |-> ZeroFolder, log |-> s.log, folders |-> s.folders, tasks |-> s.tasks,
     handed |-> s.handed]

ReturnErr(s, e) == [Return(s) EXCEPT !.err = e]

Panic(s) == [Return(s) EXCEPT !.panic = TRUE]

\* The service's answers.
OwnGetFolder(s, p) ==
    IF NativeFolder(s.folders, p) = <<>> THEN NativeErr(Code80070002) ELSE NoFailure

OwnGetTask(s, p) == IF p \in DOMAIN s.tasks THEN NoFailure ELSE NativeErr(Code80070002)

OwnCreateFolder(s, p) ==
    IF NativeFolder(s.folders, p) # <<>> THEN NativeErr(Code800700B7)
    ELSE IF p \notin FolderUniverse THEN NativeErr(Code80070002)
    ELSE NoFailure

OwnDeleteFolder(s, p) ==
    IF p \notin s.folders THEN NativeErr(Code80070002)
    ELSE IF NativeChildFolders(s.folders, p) # {} \/ NativeTasksIn(s.tasks, p) # {}
         THEN NativeErr(Code80070091)
    ELSE NoFailure

OwnRegister(s, p, flags) ==
    IF flags = TASK_CREATE /\ p \in DOMAIN s.tasks THEN NativeErr(Code800700B7)
    ELSE IF flags = TASK_UPDATE /\ p \notin DOMAIN s.tasks THEN NativeErr(Code80070002)
    ELSE IF NativeFolder(s.folders, NativeParent(p)) = <<>> THEN NativeErr(Code80070002)
    ELSE NoFailure

\* The service's state after a call that succeeded.
WithFolder(s, p) ==
    [s EXCEPT !.folders = @ \cup {g \in FolderUniverse : AtOrBelow(p, g)}]

WithoutFolder(s, p) == [s EXCEPT !.folders = @ \ {p}]

WithoutTask(s, p) == [s EXCEPT !.tasks = [q \in (DOMAIN @) \ {p} |-> @[q]]]

WithTask(s, p, def) ==
    [s EXCEPT !.tasks = [q \in (DOMAIN @) \cup {p} |->
                            IF q = p THEN [UserID |-> def.UserID, GroupID |-> def.GroupID]
                            ELSE @[q]]]

\* parseRegisteredTask(task): <<s, RegisteredTask, error>>
parseRegisteredTask(s, fi, p) ==
    LET s1 == Do(s, fi, "parseRegisteredTask", "task", p, NoFailure)
    IN  IF Failed(s1)
        THEN <<s1, ZeroTask, getTaskSchedulerError(build, s1.fail)>>
        ELSE <<s1, ParsedTask(s1.tasks, p), nil>>

(***************************************************************************)
(* Single-task operations (manage.go).  Each yields a Return record.       *)
(***************************************************************************)
\* The identity modifyTask falls back to: t.connectedDomain + `\` + t.connectedUser
ConnectedIdentity == t.connectedDomain \o <<BS>> \o t.connectedUser

\* A modifyTask that hands the caller's definition on as it came.
defaultPrincipal_asGiven(def) == def

\* modifyTask: the definition handed to the marshaller
defaultPrincipal(def) ==
    IF def.UserID = <<>> /\ def.GroupID = <<>>
    THEN [def EXCEPT !.UserID = ConnectedIdentity]
    ELSE def

\* fillDefinitionObj(newTaskDef, newTaskDefObj): the definition it is called with
Handed(s, def) == [s EXCEPT !.handed = Append(@, def)]

\* modifyTask: <<s, error>>; on success the task is registered at path
\* (fillDefinitionObj is taken to fail with a translated native failure)
modifyTask(s, fi, path, newTaskDef, flags) ==
    LET def == defaultPrincipal(newTaskDef)
        s1 == Do(s, fi, "NewTask", "service", <<>>, NoFailure)
        s2 == Do(Handed(Acq(s1, "definition", path), def),
                 fi, "fillDefinitionObj", "definition", path, NoFailure)
        s3 == Do(s2, fi, "RegisterTaskDefinition", flags, path, OwnRegister(s2, path, flags))
    IN  IF Failed(s1)
        THEN <<s1, Errorf("error creating new task: ", getTaskSchedulerError(build, s1.fail))>>
        ELSE IF Failed(s2)
        THEN <<Rel(s2, "definition", path),
               Errorf("error filling ITaskDefinition: ", getTaskSchedulerError(build, s2.fail))>>
        ELSE IF Failed(s3)
        THEN <<Rel(s3, "definition", path),
               Errorf("error registering task: ", getTaskSchedulerError(build, s3.fail))>>
        ELSE <<Rel(Acq(WithTask(s3, path, def), "task", path), "definition", path), nil>>

\* GetRegisteredTask(path)
GetRegisteredTask(s, fi, path) ==
    LET s1 == Do(s, fi, "GetTask", "root", path, OwnGetTask(s, path))
        r == parseRegisteredTask(Acq(s1, "task", path), fi, path)
    IN  IF pathCheck(path) = "panic" THEN Panic(s)
        ELSE IF pathCheck(path) = "invalid" THEN ReturnErr(s, ErrInvalidPath)
        ELSE IF Failed(s1)
        THEN ReturnErr(s1, Errorf("error getting registered task: ",
                                  getTaskSchedulerError(build, s1.fail)))
        ELSE IF r[3] # nil
        THEN ReturnErr(r[1], Errorf("error parsing registered task: ", r[3]))
        ELSE [Return(r[1]) EXCEPT !.task = r[2]]

\* DeleteTask(path)
DeleteTask(s, fi, path) ==
    LET s1 == Do(s, fi, "DeleteTask", "root", path, OwnGetTask(s, path))
    IN  IF pathCheck(path) = "panic" THEN Panic(s)
        ELSE IF pathCheck(path) = "invalid" THEN ReturnErr(s, ErrInvalidPath)
        ELSE IF Failed(s1)
        THEN ReturnErr(s1, Errorf("error deleting task: ", getTaskSchedulerError(build, s1.fail)))
        ELSE Return(WithoutTask(s1, path))

\* CreateTaskEx, from modifyTask on: register and parse the new task
createAndParse(s, fi, path, newTaskDef) ==
    LET m == modifyTask(s, fi, path, newTaskDef, TASK_CREATE)
        r == parseRegisteredTask(m[1], fi, path)
    IN  IF m[2] # nil
        THEN ReturnErr(m[1], Errorf("error creating registered task: ", m[2]))
        ELSE IF r[3] # nil
        THEN ReturnErr(r[1], Errorf("error parsing registered task: ", r[3]))
        ELSE [Return(r[1]) EXCEPT !.task = r[2], !.flag = TRUE]

\* CreateTaskEx, the branch taken when the folder of the path exists
createInExistingFolder(s, fi, path, newTaskDef, overwrite) ==
    LET s1 == Do(s, fi, "GetTask", "root", path, OwnGetTask(s, path))
        s2 == Do(s1, fi, "DeleteTask", "root", path, OwnGetTask(s1, path))
    IN  IF Failed(s1)
        THEN createAndParse(s1, fi, path, newTaskDef)
        ELSE IF ~overwrite
        THEN GetRegisteredTask(s1, fi, path)
        ELSE IF Failed(s2)
        THEN ReturnErr(s2, Errorf("error deleting registered task: ",
                                  getTaskSchedulerError(build, s2.fail)))
        ELSE createAndParse(WithoutTask(s2, path), fi, path, newTaskDef)

\* The order of CreateTaskEx's and UpdateTaskEx's checks: the path's first
\* character, then the definition.
argumentCheck_late(path, newTaskDef) ==
    IF pathCheck(path) = "panic" THEN "panic"
    ELSE IF pathCheck(path) = "invalid" THEN "invalid"
    ELSE "ok"

argumentCheck(path, newTaskDef) ==
    IF pathCheck(path) = "panic" THEN "panic"
    ELSE IF pathCheck(path) = "invalid" THEN "invalid"
    ELSE IF validateDefinition(newTaskDef) # nil THEN "definition"
    ELSE "ok"

\* CreateTaskEx(path, newTaskDef, username, password, logonType, overwrite)
CreateTaskEx(s, fi, path, newTaskDef, overwrite) ==
    LET folderPath == folderPathOf(path)
        s1 == Do(s, fi, "GetFolder", "service", folderPath, OwnGetFolder(s, folderPath))
        s2 == Do(s1, fi, "CreateFolder", "root", folderPath, OwnCreateFolder(s1, folderPath))
        c == argumentCheck(path, newTaskDef)
    IN  IF c = "panic" THEN Panic(s)
        ELSE IF c = "invalid" THEN ReturnErr(s, ErrInvalidPath)
        ELSE IF c = "definition" THEN ReturnErr(s, validateDefinition(newTaskDef))
        ELSE IF Failed(s1)
        THEN IF Failed(s2)
             THEN ReturnErr(s2, Errorf("error creating folder: ",
                                       getTaskSchedulerError(build, s2.fail)))
             ELSE createAndParse(WithFolder(s2, folderPath), fi, path, newTaskDef)
        ELSE createInExistingFolder(s1, fi, path, newTaskDef, overwrite)

\* An update that goes the way of CreateTaskEx with overwrite.
UpdateTaskEx_asCreate(s, fi, path, newTaskDef) == CreateTaskEx(s, fi, path, newTaskDef, TRUE)

\* UpdateTaskEx(path, newTaskDef, username, password, logonType)
UpdateTaskEx(s, fi, path, newTaskDef) ==
    LET m == modifyTask(s, fi, path, newTaskDef, TASK_UPDATE)
        r == parseRegisteredTask(m[1], fi, path)
        c == argumentCheck(path, newTaskDef)
    IN  IF c = "panic" THEN Panic(s)
        ELSE IF c = "invalid" THEN ReturnErr(s, ErrInvalidPath)
        ELSE IF c = "definition" THEN ReturnErr(s, validateDefinition(newTaskDef))
        ELSE IF m[2] # nil
        THEN ReturnErr(m[1], Errorf("error updating task: ", m[2]))
        ELSE IF r[3] # nil
        THEN ReturnErr(r[1], Errorf("error parsing registered task: ", r[3]))
        ELSE [Return(r[1]) EXCEPT !.task = r[2]]

(***************************************************************************)
(* Enumeration (manage.go: GetRunningTasks, GetRegisteredTasks,            *)
(* GetTaskFolder).  A walk yields W(s, out, err, panic).                   *)
(***************************************************************************)
\* x bound to a name in what follows: Then is the rest of the function body.
With(x, Then(_)) == Then(x)

W(s, out, err, panic) == [s |-> s, out |-> out, err |-> err, panic |-> panic]

Stopped(w) == w.err # nil \/ w.panic

\* registeredTasks = append(registeredTasks, registeredTask)
appendTask_front(acc, task) == <<task>> \o acc

appendTask(acc, task) == Append(acc, task)

\* The visitor of a task collection: parse each task and append it to acc.
\* release: whether the visitor releases the task's handle (defer task.Release()).
RECURSIVE taskEach(_, _, _, _, _)
taskEach(s, fi, ps, acc, release) ==
    IF ps = <<>> THEN W(s, acc, nil, FALSE)
    ELSE LET p == Head(ps)
             r == parseRegisteredTask(Acq(s, "task", p), fi, p)
             s1 == IF release THEN Rel(r[1], "task", p) ELSE r[1]
         IN  IF r[3] # nil
             THEN W(s1, acc, Errorf("error parsing registered task: ", r[3]), FALSE)
             ELSE taskEach(s1, fi, Tail(ps), appendTask(acc, r[2]), release)

\* oleutil.ForEach over the tasks of folder f, which returns its own failure as it is
forEachTasks(s, fi, ord, f, acc, release) ==
    LET s1 == Do(s, fi, "ForEach", "tasks", f, NoFailure)
    IN  IF Failed(s1) THEN W(s1, acc, Raw(s1.fail), FALSE)
        ELSE taskEach(s1, fi, Enumerate(NativeTasksIn(s1.tasks, f), ord), acc, release)

\* A folder visitor whose deferred releases leave the folder's handle held.
releaseFolder_leaked(s, g, n) ==
    LET a == IF n >= 3 THEN Rel(s, "folders", g) ELSE s
    IN  IF n >= 2 THEN Rel(a, "tasks", g) ELSE a

\* The deferred releases of a folder visitor, in the order they run.
releaseFolder(s, g, n) ==
    LET a == IF n >= 3 THEN Rel(s, "folders", g) ELSE s
        b == IF n >= 2 THEN Rel(a, "tasks", g) ELSE a
    IN  Rel(b, "folder", g)

\* GetRegisteredTasks: oleutil.ForEach(taskFolders, enumTaskFolders), the visitor
\* enumTaskFolders applied to each folder of gs in turn until one fails
RECURSIVE enumTaskFolders(_, _, _, _, _)
enumTaskFolders(s, fi, ord, gs, acc) ==
    IF gs = <<>> THEN W(s, acc, nil, FALSE)
    ELSE With(Head(gs), LAMBDA g :
         With(Do(Acq(s, "folder", g), fi, "GetTasks", "folder", g, NoFailure), LAMBDA s1 :
         IF Failed(s1)
         THEN W(releaseFolder(s1, g, 1), acc,
                Errorf("error getting tasks of folder: ",
                       getTaskSchedulerError(build, s1.fail)), FALSE)
         ELSE
         With(forEachTasks(Acq(s1, "tasks", g), fi, ord, g, acc, FALSE), LAMBDA ts :
         IF Stopped(ts) THEN [ts EXCEPT !.s = releaseFolder(ts.s, g, 2)]
         ELSE
         With(Do(ts.s, fi, "GetFolders", "folder", g, NoFailure), LAMBDA s2 :
         IF Failed(s2)
         THEN W(releaseFolder(s2, g, 2), ts.out,
                Errorf("error getting subfolders of folder: ",
                       getTaskSchedulerError(build, s2.fail)), FALSE)
         ELSE
         With(Do(Acq(s2, "folders", g), fi, "ForEach", "folders", g, NoFailure), LAMBDA s3 :
         IF Failed(s3) THEN W(releaseFolder(s3, g, 3), ts.out, Raw(s3.fail), FALSE)
         ELSE
         With(enumTaskFolders(s3, fi, ord,
                  Enumerate(NativeChildFolders(s3.folders, g), ord), ts.out), LAMBDA sub :
         With([sub EXCEPT !.s = releaseFolder(sub.s, g, 3)], LAMBDA r :
         IF Stopped(r) THEN r
         ELSE enumTaskFolders(r.s, fi, ord, Tail(gs), r.out))))))))

\* The deferred releases of GetRegisteredTasks, in the order they run.
releaseRoot(s, n) ==
    LET a == IF n >= 2 THEN Rel(s, "folders", Root) ELSE s
    IN  Rel(a, "tasks", Root)

\* GetRegisteredTasks()
GetRegisteredTasks(s, fi, ord) ==
    With(Do(s, fi, "GetTasks", "root", Root, NoFailure), LAMBDA s1 :
    IF Failed(s1)
    THEN ReturnErr(s1, Errorf("error getting tasks of root folder: ",
                              getTaskSchedulerError(build, s1.fail)))
    ELSE
    With(forEachTasks(Acq(s1, "tasks", Root), fi, ord, Root, <<>>, TRUE), LAMBDA ts :
    IF Stopped(ts) THEN ReturnErr(releaseRoot(ts.s, 1), ts.err)
    ELSE
    With(Do(ts.s, fi, "GetFolders", "root", Root, NoFailure), LAMBDA s2 :
    IF Failed(s2)
    THEN ReturnErr(releaseRoot(s2, 1), Errorf("error getting task folders of root folder: ",
                                               getTaskSchedulerError(build, s2.fail)))
    ELSE
    With(Do(Acq(s2, "folders", Root), fi, "ForEach", "folders", Root, NoFailure), LAMBDA s3 :
    IF Failed(s3) THEN ReturnErr(releaseRoot(s3, 2), Raw(s3.fail))
    ELSE
    With(enumTaskFolders(s3, fi, ord,
             Enumerate(NativeChildFolders(s3.folders, Root), ord), ts.out), LAMBDA sub :
    IF Stopped(sub) THEN ReturnErr(releaseRoot(sub.s, 2), sub.err)
    ELSE [Return(releaseRoot(sub.s, 2)) EXCEPT !.list = sub.out])))))

\* parentFolder.SubFolders = append(parentFolder.SubFolders, taskSubFolder)
appendSubFolder_only(subFolders, taskSubFolder) == <<taskSubFolder>>

appendSubFolder(subFolders, taskSubFolder) == Append(subFolders, taskSubFolder)

\* The Name property of the folder at g: its last segment.
NativeName(g) == SubSeq(g, LastIndex(g) + 2, Len(g))

\* GetTaskFolder: oleutil.ForEach(taskFolderList, initEnumTaskFolders(parentFolder)),
\* the visitor applied to each folder of gs in turn until one fails.  subFolders
\* is parentFolder.SubFolders; a failing oleutil.MustGetProperty panics.
RECURSIVE initEnumTaskFolders(_, _, _, _, _)
initEnumTaskFolders(s, fi, ord, gs, subFolders) ==
    IF gs = <<>> THEN W(s, subFolders, nil, FALSE)
    ELSE With(Head(gs), LAMBDA g :
         With(Do(Acq(s, "folder", g), fi, "Name", "folder", g, NoFailure), LAMBDA s1 :
         IF Failed(s1) THEN W(releaseFolder(s1, g, 1), subFolders, nil, TRUE)
         ELSE
         With(Do(s1, fi, "Path", "folder", g, NoFailure), LAMBDA s2 :
         IF Failed(s2) THEN W(releaseFolder(s2, g, 1), subFolders, nil, TRUE)
         ELSE
         With(Do(s2, fi, "GetTasks", "folder", g, NoFailure), LAMBDA s3 :
         IF Failed(s3)
         THEN W(releaseFolder(s3, g, 1), subFolders,
                Errorf("error getting tasks of folder: ",
                       getTaskSchedulerError(build, s3.fail)), FALSE)
         ELSE
         With(forEachTasks(Acq(s3, "tasks", g), fi, ord, g, <<>>, FALSE), LAMBDA ts :
         IF Stopped(ts) THEN W(releaseFolder(ts.s, g, 2), subFolders, ts.err, ts.panic)
         ELSE
         With(Do(ts.s, fi, "GetFolders", "folder", g, NoFailure), LAMBDA s4 :
         IF Failed(s4)
         THEN W(releaseFolder(s4, g, 2), subFolders,
                Errorf("error getting subfolders of folder: ",
                       getTaskSchedulerError(build, s4.fail)), FALSE)
         ELSE
         With(Do(Acq(s4, "folders", g), fi, "ForEach", "folders", g, NoFailure), LAMBDA s5 :
         IF Failed(s5) THEN W(releaseFolder(s5, g, 3), subFolders, Raw(s5.fail), FALSE)
         ELSE
         With(initEnumTaskFolders(s5, fi, ord,
                  Enumerate(NativeChildFolders(s5.folders, g), ord), <<>>), LAMBDA sub :
         With([Name |-> NativeName(g), Path |-> g, RegisteredTasks |-> ts.out,
               SubFolders |-> sub.out], LAMBDA taskSubFolder :
         IF Stopped(sub) THEN W(releaseFolder(sub.s, g, 3), subFolders, sub.err, sub.panic)
         ELSE initEnumTaskFolders(releaseFolder(sub.s, g, 3), fi, ord, Tail(gs),
                                  appendSubFolder(subFolders, taskSubFolder)))))))))))

\* topFolder := TaskFolder{Path: `\`}
topFolderOf(path) == [ZeroFolder EXCEPT !.Path = Root]

\* The deferred releases of GetTaskFolder, in the order they run; the top
\* folder's handle is released unless it is the connection's root folder.
releaseTop(s, path, n) ==
    LET top == NativeFolder(s.folders, path)
        a == IF n >= 3 THEN Rel(s, "folders", top) ELSE s
        b == IF n >= 2 THEN Rel(a, "tasks", top) ELSE a
    IN  IF path = Root THEN b ELSE Rel(b, "folder", top)

\* GetTaskFolder(path)
GetTaskFolder(s, fi, ord, path) ==
    IF pathCheck(path) = "panic" THEN Panic(s)
    ELSE IF pathCheck(path) = "invalid" THEN ReturnErr(s, ErrInvalidPath)
    ELSE
    With(NativeFolder(s.folders, path), LAMBDA top :
    With(IF path = Root THEN s
         ELSE Do(s, fi, "GetFolder", "service", path, OwnGetFolder(s, path)), LAMBDA s0 :
    IF Failed(s0)
    THEN ReturnErr(s0, Errorf("error getting folder: ", getTaskSchedulerError(build, s0.fail)))
    ELSE
    With(Do(IF path = Root THEN s0 ELSE Acq(s0, "folder", top),
            fi, "GetTasks", "folder", top, NoFailure), LAMBDA s1 :
    IF Failed(s1)
    THEN ReturnErr(releaseTop(s1, path, 1),
                   Errorf("error getting tasks of folder: ", getTaskSchedulerError(build, s1.fail)))
    ELSE
    With(forEachTasks(Acq(s1, "tasks", top), fi, ord, top, <<>>, FALSE), LAMBDA ts :
    IF Stopped(ts) THEN ReturnErr(releaseTop(ts.s, path, 2), ts.err)
    ELSE
    With(Do(ts.s, fi, "GetFolders", "folder", top, NoFailure), LAMBDA s2 :
    IF Failed(s2)
    THEN ReturnErr(releaseTop(s2, path, 2),
                   Errorf("error getting subfolders of folder: ",
                          getTaskSchedulerError(build, s2.fail)))
    ELSE
    With(Do(Acq(s2, "folders", top), fi, "ForEach", "folders", top, NoFailure), LAMBDA s3 :
    IF Failed(s3) THEN ReturnErr(releaseTop(s3, path, 3), Raw(s3.fail))
    ELSE
    With(initEnumTaskFolders(s3, fi, ord,
             Enumerate(NativeChildFolders(s3.folders, top), ord), <<>>), LAMBDA sub :
    IF sub.panic THEN Panic(releaseTop(sub.s, path, 3))
    ELSE IF sub.err # nil THEN ReturnErr(releaseTop(sub.s, path, 3), sub.err)
    ELSE [Return(releaseTop(sub.s, path, 3)) EXCEPT
             !.tree = [topFolderOf(path) EXCEPT !.RegisteredTasks = ts.out,
                                                !.SubFolders = sub.out]])))))))

\* parseRunningTask(task): <<s, RunningTask, error>>
parseRunningTask(s, fi, p) ==
    LET s1 == Do(s, fi, "parseRunningTask", "running", p, NoFailure)
    IN  IF Failed(s1)
        THEN <<s1, ZeroTask, getRunningTaskError(build, s1.fail)>>
        ELSE <<s1, [ZeroTask EXCEPT !.Name = NativeName(p), !.Path = p], nil>>

\* return fmt.Errorf("error parsing running task: %v", err)
runningTaskError(err) == Errorf("error parsing running task: ", err)

\* GetRunningTasks: the visitor of the running-task collection
RECURSIVE runningEach(_, _, _, _)
runningEach(s, fi, ps, acc) ==
    IF ps = <<>> THEN W(s, acc, nil, FALSE)
    ELSE LET p == Head(ps)
             r == parseRunningTask(Acq(s, "running", p), fi, p)
         IN  IF r[3] # nil
             THEN W(r[1], acc, runningTaskError(r[3]), FALSE)
             ELSE runningEach(r[1], fi, Tail(ps), Append(acc, r[2]))

\* GetRunningTasks(), when the service's running tasks are those of running
GetRunningTasks(s, fi, ord, running) ==
    LET s1 == Do(s, fi, "GetRunningTasks", "service", <<>>, NoFailure)
        s2 == Do(Acq(s1, "runningTasks", <<>>), fi, "ForEach", "runningTasks", <<>>, NoFailure)
        rs == runningEach(s2, fi, Enumerate(running, ord), <<>>)
    IN  IF Failed(s1)
        THEN ReturnErr(s1, Errorf("error getting running tasks: ",
                                  getTaskSchedulerError(build, s1.fail)))
        ELSE IF Failed(s2) THEN ReturnErr(Rel(s2, "runningTasks", <<>>), Raw(s2.fail))
        ELSE IF Stopped(rs) THEN ReturnErr(Rel(rs.s, "runningTasks", <<>>), rs.err)
        ELSE [Return(Rel(rs.s, "runningTasks", <<>>)) EXCEPT !.list = rs.out]

(***************************************************************************)
(* DeleteFolder (manage.go).                                               *)
(***************************************************************************)
\* The run after an operation called inside another returned r.
After(s, r) == [s EXCEPT !.log = r.log, !.folders = r.folders, !.tasks = r.tasks]

\* deleteAllTasks, the visitor of a task collection: delete each task by its Path
RECURSIVE deleteAllTasks(_, _, _)
deleteAllTasks(s, fi, ps) ==
    IF ps = <<>> THEN W(s, <<>>, nil, FALSE)
    ELSE LET p == Head(ps)
             s1 == Do(Acq(s, "task", p), fi, "Path", "task", p, NoFailure)
             r == DeleteTask(s1, fi, p)
             s2 == Rel(After(s1, r), "task", p)
         IN  IF Failed(s1) THEN W(Rel(s1, "task", p), <<>>, nil, TRUE)
             ELSE IF r.err # nil THEN W(s2, <<>>, r.err, FALSE)
             ELSE deleteAllTasks(s2, fi, Tail(ps))

\* A walk that leaves the tasks of a folder where they are.
forEachDeleteAllTasks_skipped(s, fi, ord, f) == W(s, <<>>, nil, FALSE)

\* oleutil.ForEach(tasks, deleteAllTasks) over the tasks of folder f
forEachDeleteAllTasks(s, fi, ord, f) ==
    LET s1 == Do(s, fi, "ForEach", "tasks", f, NoFailure)
    IN  IF Failed(s1) THEN W(s1, <<>>, Raw(s1.fail), FALSE)
        ELSE deleteAllTasks(s1, fi, Enumerate(NativeTasksIn(s1.tasks, f), ord))

\* oleutil.ForEach(subFolders, deleteTasksRecursively), the visitor applied to
\* each folder of gs in turn until one fails
RECURSIVE deleteTasksRecursively(_, _, _, _)
deleteTasksRecursively(s, fi, ord, gs) ==
    IF gs = <<>> THEN W(s, <<>>, nil, FALSE)
    ELSE With(Head(gs), LAMBDA g :
         With(Do(Acq(s, "folder", g), fi, "GetTasks", "folder", g, NoFailure), LAMBDA s1 :
         IF Failed(s1)
         THEN W(releaseFolder(s1, g, 1), <<>>,
                Errorf("error getting tasks of folder: ",
                       getTaskSchedulerError(build, s1.fail)), FALSE)
         ELSE
         With(forEachDeleteAllTasks(Acq(s1, "tasks", g), fi, ord, g), LAMBDA d :
         IF Stopped(d) THEN [d EXCEPT !.s = releaseFolder(d.s, g, 2)]
         ELSE
         With(Do(d.s, fi, "GetFolders", "folder", g, NoFailure), LAMBDA s2 :
         IF Failed(s2)
         THEN W(releaseFolder(s2, g, 2), <<>>,
                Errorf("error getting subfolders: ",
                       getTaskSchedulerError(build, s2.fail)), FALSE)
         ELSE
         With(Do(Acq(s2, "folders", g), fi, "ForEach", "folders", g, NoFailure), LAMBDA s3 :
         IF Failed(s3) THEN W(releaseFolder(s3, g, 3), <<>>, Raw(s3.fail), FALSE)
         ELSE
         With(deleteTasksRecursively(s3, fi, ord,
                  Enumerate(NativeChildFolders(s3.folders, g), ord)), LAMBDA sub :
         IF Stopped(sub) THEN [sub EXCEPT !.s = releaseFolder(sub.s, g, 3)]
         ELSE
         With(Do(sub.s, fi, "Path", "folder", g, NoFailure), LAMBDA s4 :
         IF Failed(s4) THEN W(releaseFolder(s4, g, 3), <<>>, nil, TRUE)
         ELSE
         With(Do(s4, fi, "DeleteFolder", "root", g, OwnDeleteFolder(s4, g)), LAMBDA s5 :
         IF Failed(s5)
         THEN W(releaseFolder(s5, g, 3), <<>>,
                Errorf("error deleting task folder: ",
                       getTaskSchedulerError(build, s5.fail)), FALSE)
         ELSE deleteTasksRecursively(releaseFolder(WithoutFolder(s5, g), g, 3),
                                     fi, ord, Tail(gs))))))))))

\* A DeleteFolder that reports success when a walk inside it stopped.
EndWalk_swallowed(s, w) == [Return(s) EXCEPT !.flag = TRUE]

\* How a walk inside DeleteFolder ends it: a panic, or (false, err).
EndWalk(s, w) == IF w.panic THEN Panic(s) ELSE ReturnErr(s, w.err)

\* A DeleteFolder that reports the folder deleted without asking the service.
deleteParentFolder_unasked(s, fi, path, top) ==
    [Return(releaseFolder(s, top, 3)) EXCEPT !.flag = TRUE]

\* DeleteFolder's last step: the delete of the folder itself
deleteParentFolder(s, fi, path, top) ==
    With(Do(s, fi, "DeleteFolder", "root", path, OwnDeleteFolder(s, path)), LAMBDA s1 :
    IF Failed(s1)
    THEN ReturnErr(releaseFolder(s1, top, 3),
                   Errorf("error deleting task folder: ", getTaskSchedulerError(build, s1.fail)))
    ELSE [Return(releaseFolder(WithoutFolder(s1, path), top, 3)) EXCEPT !.flag = TRUE])

\* DeleteFolder with deleteRecursively, once both collections are held
deleteFolderBody(s, fi, ord, path, top) ==
    With(forEachDeleteAllTasks(s, fi, ord, top), LAMBDA d :
    IF Stopped(d) THEN EndWalk(releaseFolder(d.s, top, 3), d)
    ELSE
    With(Do(d.s, fi, "ForEach", "folders", top, NoFailure), LAMBDA s1 :
    IF Failed(s1) THEN ReturnErr(releaseFolder(s1, top, 3), Raw(s1.fail))
    ELSE
    With(deleteTasksRecursively(s1, fi, ord,
             Enumerate(NativeChildFolders(s1.folders, top), ord)), LAMBDA sub :
    IF Stopped(sub) THEN EndWalk(releaseFolder(sub.s, top, 3), sub)
    ELSE deleteParentFolder(sub.s, fi, path, top))))

\* DeleteFolder(path, deleteRecursively)
DeleteFolder(s, fi, ord, path, deleteRecursively) ==
    IF pathCheck(path) = "panic" THEN Panic(s)
    ELSE IF pathCheck(path) = "invalid" THEN ReturnErr(s, ErrInvalidPath)
    ELSE
    With(NativeFolder(s.folders, path), LAMBDA top :
    With(Do(s, fi, "GetFolder", "service", path, OwnGetFolder(s, path)), LAMBDA s1 :
    IF Failed(s1)
    THEN ReturnErr(s1, Errorf("error getting folder: ", getTaskSchedulerError(build, s1.fail)))
    ELSE
    With(Do(Acq(s1, "folder", top), fi, "GetTasks", "folder", top, NoFailure), LAMBDA s2 :
    IF Failed(s2)
    THEN ReturnErr(releaseFolder(s2, top, 1),
                   Errorf("error getting tasks of folder: ", getTaskSchedulerError(build, s2.fail)))
    ELSE
    With(IF deleteRecursively THEN Acq(s2, "tasks", top)
         ELSE Do(Acq(s2, "tasks", top), fi, "Count", "tasks", top, NoFailure), LAMBDA s3 :
    IF ~deleteRecursively /\ Failed(s3) THEN Panic(releaseFolder(s3, top, 2))
    ELSE IF ~deleteRecursively /\ NativeTasksIn(s3.tasks, top) # {}
    THEN Return(releaseFolder(s3, top, 2))
    ELSE
    With(Do(s3, fi, "GetFolders", "folder", top, NoFailure), LAMBDA s4 :
    IF Failed(s4)
    THEN ReturnErr(releaseFolder(s4, top, 2),
                   Errorf("error getting the subfolders: ", getTaskSchedulerError(build, s4.fail)))
    ELSE
    With(IF deleteRecursively THEN Acq(s4, "folders", top)
         ELSE Do(Acq(s4, "folders", top), fi, "Count", "folders", top, NoFailure), LAMBDA s5 :
    IF ~deleteRecursively /\ Failed(s5) THEN Panic(releaseFolder(s5, top, 3))
    ELSE IF ~deleteRecursively /\ NativeChildFolders(s5.folders, top) # {}
    THEN Return(releaseFolder(s5, top, 3))
    ELSE IF deleteRecursively THEN deleteFolderBody(s5, fi, ord, path, top)
    ELSE deleteParentFolder(s5, fi, path, top)))))))

(***************************************************************************)
(* The operations on a connected TaskService.  The caller makes one call   *)
(* at a time: res holds the call's arguments, the service's state before   *)
(* it and what it returned, until the caller goes on (Continue).  A panic  *)
(* ends the program.                                                       *)
(***************************************************************************)
\* The failures injected: access denied, and for a running task also
\* "the task is not running" (0x8004130B).
InjectedFailures(op) ==
    IF op = "GetRunningTasks" THEN {NativeErr(Code5), NativeErr(Code8004130B)}
    ELSE {NativeErr(Code5)}

Injections(op) ==
    {NoInject} \cup {[at |-> i, f |-> f] : i \in 1..MaxFailAt, f \in InjectedFailures(op)}

\* The paths the operations are called with: the empty path, paths that do
\* not start with the separator, and paths of the service's name space.
BadPaths == {<<>>, <<"X">>}

TaskPaths == BadPaths \cup TaskUniverse

FolderPaths == BadPaths \cup {Root} \cup FolderUniverse

NoDefinition == Definition(0, <<>>, <<>>)

NoResult ==
    [op |-> "none", path |-> <<>>, def |-> NoDefinition, overwrite |-> FALSE,
     recursive |-> FALSE, fi |-> NoInject, running |-> {},
     pre |-> [folders |-> {}, tasks |-> <<>>], r |-> Return([log |-> <<>>, folders |-> {}, tasks |-> <<>>, handed |-> <<>>])]

Result(op, path, def, overwrite, recursive, fi, running, r) ==
    [op |-> op, path |-> path, def |-> def, overwrite |-> overwrite,
     recursive |-> recursive,
     fi |-> IF fi.at <= NCalls(r.log) THEN fi ELSE NoInject,
     running |-> running,
     pre |-> [folders |-> folders, tasks |-> tasks], r |-> r]

Idle == res.op = "none"

\* The service's state after the call that returned r, within the bounds.
Returns(r) ==
    /\ Cardinality(DOMAIN r.tasks) <= MaxTasks
    /\ folders' = r.folders
    /\ tasks' = r.tasks

Fixed == UNCHANGED <<build, emptyPathIsRoot, tx, t, handles, ctx, cres>>

CallCreateTaskEx ==
    /\ Idle
    /\ \E path \in TaskPaths, def \in Definitions, overwrite \in BOOLEAN, fi \in Injections("CreateTaskEx") :
        LET r == CreateTaskEx(Start, fi, path, def, overwrite)
        IN  /\ Returns(r)
            /\ res' = Result("CreateTaskEx", path, def, overwrite, FALSE, fi, {}, r)
    /\ Fixed

CallUpdateTaskEx ==
    /\ Idle
    /\ \E path \in TaskPaths, def \in Definitions, fi \in Injections("UpdateTaskEx") :
        LET r == UpdateTaskEx(Start, fi, path, def)
        IN  /\ Returns(r)
            /\ res' = Result("UpdateTaskEx", path, def, FALSE, FALSE, fi, {}, r)
    /\ Fixed

CallDeleteTask ==
    /\ Idle
    /\ \E path \in TaskPaths, fi \in Injections("DeleteTask") :
        LET r == DeleteTask(Start, fi, path)
        IN  /\ Returns(r)
            /\ res' = Result("DeleteTask", path, NoDefinition, FALSE, FALSE, fi, {}, r)
    /\ Fixed

CallGetRegisteredTask ==
    /\ Idle
    /\ \E path \in TaskPaths, fi \in Injections("GetRegisteredTask") :
        LET r == GetRegisteredTask(Start, fi, path)
        IN  /\ Returns(r)
            /\ res' = Result("GetRegisteredTask", path, NoDefinition, FALSE, FALSE, fi, {}, r)
    /\ Fixed

CallDeleteFolder ==
    /\ Idle
    /\ \E path \in FolderPaths, deleteRecursively \in BOOLEAN, fi \in Injections("DeleteFolder"), ord \in Orders :
        LET r == DeleteFolder(Start, fi, ord, path, deleteRecursively)
        IN  /\ Returns(r)
            /\ res' = Result("DeleteFolder", path, NoDefinition, FALSE, deleteRecursively, fi, {}, r)
    /\ Fixed

CallGetTaskFolder ==
    /\ Idle
    /\ \E path \in FolderPaths, fi \in Injections("GetTaskFolder"), ord \in Orders :
        LET r == GetTaskFolder(Start, fi, ord, path)
        IN  /\ Returns(r)
            /\ res' = Result("GetTaskFolder", path, NoDefinition, FALSE, FALSE, fi, {}, r)
    /\ Fixed

CallGetRegisteredTasks ==
    /\ Idle
    /\ \E fi \in Injections("GetRegisteredTasks"), ord \in Orders :
        LET r == GetRegisteredTasks(Start, fi, ord)
        IN  /\ Returns(r)
            /\ res' = Result("GetRegisteredTasks", <<>>, NoDefinition, FALSE, FALSE, fi, {}, r)
    /\ Fixed

CallGetRunningTasks ==
    /\ Idle
    /\ \E running \in SUBSET (DOMAIN tasks), fi \in Injections("GetRunningTasks"), ord \in Orders :
        LET r == GetRunningTasks(Start, fi, ord, running)
        IN  /\ Returns(r)
            /\ res' = Result("GetRunningTasks", <<>>, NoDefinition, FALSE, FALSE, fi, running, r)
    /\ Fixed

\* The caller goes on to its next call.
Continue ==
    /\ ~Idle
    /\ ~res.r.panic
    /\ res' = NoResult
    /\ UNCHANGED <<folders, tasks>>
    /\ Fixed

(***************************************************************************)
(* Specifications.                                                         *)
(***************************************************************************)
\* The TaskService Connect() returns on the local machine.
Connected == ConnectWithOptions("errors.go", 1, <<>>, <<>>, <<>>, "none", NotOle, NoHandles, NoContext)

\* What the service holds when the program connects: nothing, or a task another
\* client registered in the root folder.
InitialTasks ==
    {<<>>, [p \in {<<BS, "X">>} |-> [UserID |-> <<"b">>, GroupID |-> <<>>]]}

\* Operations on a connected TaskService.
Init ==
    /\ build = "errors.go"
    /\ emptyPathIsRoot \in BOOLEAN
    /\ folders = {}
    /\ tasks \in InitialTasks
    /\ res = NoResult
    /\ tx = NoTranslation
    /\ t = Connected[2]
    /\ handles = Connected[3]
    /\ ctx = [Connected[4] EXCEPT !.connects = 1]
    /\ cres = NoConnResult

Next ==
    \/ CallCreateTaskEx
    \/ CallUpdateTaskEx
    \/ CallDeleteTask
    \/ CallGetRegisteredTask
    \/ CallDeleteFolder
    \/ CallGetTaskFolder
    \/ CallGetRegisteredTasks
    \/ CallGetRunningTasks
    \/ Continue

Spec == Init /\ [][Next]_vars

\* The life cycle of a connection, from a TaskService that was never connected.
InitConn ==
    /\ build \in Builds
    /\ emptyPathIsRoot = FALSE
    /\ folders = {}
    /\ tasks = <<>>
    /\ res = NoResult
    /\ tx = NoTranslation
    /\ t = ZeroTaskService
    /\ handles = NoHandles
    /\ ctx = NoContext
    /\ cres = NoConnResult

NextConn == Connect \/ Disconnect

SpecConn == InitConn /\ [][NextConn]_vars

\* The error translators on every failure of the native boundary.
InitErr ==
    /\ build \in Builds
    /\ emptyPathIsRoot = FALSE
    /\ folders = {}
    /\ tasks = <<>>
    /\ res = NoResult
    /\ tx = NoTranslation
    /\ t = ZeroTaskService
    /\ handles = NoHandles
    /\ ctx = NoContext
    /\ cres = NoConnResult

NextErr == TranslateScheduler \/ TranslateRunning

SpecErr == InitErr /\ [][NextErr]_vars

(***************************************************************************)
(* Properties.  They read res: the last call, its arguments, the service   *)
(* before it (res.pre) and what it returned (res.r).                       *)
(***************************************************************************)
PathOps ==
    {"GetRegisteredTask", "GetTaskFolder", "CreateTaskEx", "UpdateTaskEx",
     "DeleteFolder", "DeleteTask"}

\* The path does not start with the separator (the empty path included).
Malformed(path) == path = <<>> \/ path[1] # BS

\* The positions of a log that call method m.
CallsOf(log, m) == {i \in DOMAIN log : log[i].m = m}

\* The call left the service as it found it.
Unchanged == res.r.folders = res.pre.folders /\ res.r.tasks = res.pre.tasks

\* A call of CreateTaskEx with a definition that passes validation, on a task
\* that exists, no native call failing for a reason of its own.
CreateOnExisting(overwrite) ==
    /\ res.op = "CreateTaskEx"
    /\ res.overwrite = overwrite
    /\ res.path \in DOMAIN res.pre.tasks
    /\ validateDefinition(res.def) = nil
    /\ res.fi = NoInject

\* C1: every path-taking operation, called with a path that does not start
\* with the separator `\` (the empty path included), returns ErrInvalidPath
\* and makes no native call.
C1_MalformedPathIsInvalidPath ==
    (res.op \in PathOps /\ Malformed(res.path))
        => (~res.r.panic /\ res.r.err = ErrInvalidPath /\ NCalls(res.r.log) = 0)

\* C2: CreateTaskEx and UpdateTaskEx, given a definition with no action or
\* with both UserID and GroupID set, make no native call and leave the
\* hierarchy unchanged, whatever the path; when the path starts with the
\* separator they return the validation error (ErrNoActions for no action,
\* ErrInvalidPrincipal for both identities).
C2_InvalidDefinitionNoNativeCall ==
    (res.op \in {"CreateTaskEx", "UpdateTaskEx"} /\ validateDefinition(res.def) # nil)
        => /\ res.r.log = <<>>
           /\ Unchanged
           /\ ~Malformed(res.path) =>
                /\ ~res.r.panic
                /\ res.r.task = ZeroTask /\ ~res.r.flag
                /\ res.def.Actions = 0 => res.r.err = ErrNoActions
                /\ res.def.Actions # 0 => res.r.err = ErrInvalidPrincipal

\* C2's case: an update of an existing task with both identities set is refused.
C2_Witness ==
    /\ res.op = "UpdateTaskEx"
    /\ res.path = <<BS, "A", BS, "X">>
    /\ res.path \in DOMAIN res.pre.tasks
    /\ res.def = Definition(1, <<"b">>, <<"g">>)
    /\ res.r.err = ErrInvalidPrincipal

\* C3: CreateTaskEx with overwrite=false on a task that exists (a task
\* directly under the root included) returns the task that was there, the
\* flag false and no error, and calls neither DeleteTask nor CreateFolder nor
\* RegisterTaskDefinition.
C3_NoOverwriteReturnsExisting ==
    CreateOnExisting(FALSE)
        => /\ ~res.r.panic /\ res.r.err = nil /\ ~res.r.flag
           /\ res.r.task = ParsedTask(res.pre.tasks, res.path)
           /\ CallsOf(res.r.log, "DeleteTask") = {}
           /\ CallsOf(res.r.log, "CreateFolder") = {}
           /\ CallsOf(res.r.log, "RegisterTaskDefinition") = {}

\* C4: CreateTaskEx with overwrite=true on a task that exists calls DeleteTask
\* exactly once, for that path, then RegisterTaskDefinition exactly once.
C4_OverwriteDeletesThenRegisters ==
    CreateOnExisting(TRUE)
        => LET dels == CallsOf(res.r.log, "DeleteTask")
               regs == CallsOf(res.r.log, "RegisterTaskDefinition")
           IN  /\ Cardinality(dels) = 1
               /\ Cardinality(regs) = 1
               /\ \A i \in dels : res.r.log[i].path = res.path
               /\ \A i \in dels, j \in regs : i < j /\ res.r.log[j].path = res.path

\* C5: over every sequence of Connect and Disconnect calls, Disconnect twice
\* in a row or on a TaskService that never connected included, each handle
\* is released at most once, and only after it was acquired, and the native
\* context is torn down at most once per initialization.
C5_DisconnectReleasesOnce ==
    /\ \A id \in HandleIds : handles[id].rel <= 1 /\ (handles[id].rel = 1 => handles[id].acq)
    /\ ctx.teardowns <= ctx.inits

\* C5's case: a second Disconnect in a row, after a Connect that succeeded.
C5_Witness ==
    /\ cres.op = "Disconnect"
    /\ ctx.disconnects = 2
    /\ ctx.inits = 1 /\ ctx.teardowns = 1
    /\ handles[<<1, "svc">>].rel = 1 /\ handles[<<1, "root">>].rel = 1
    /\ ~cres.before.isConnected /\ ~cres.before.isInitialized

\* The nodes of a tree below a node of path parent whose SubFolders are subs,
\* each with the path of the node it hangs under.
RECURSIVE TreeNodes(_, _)
TreeNodes(parent, subs) ==
    IF subs = <<>> THEN <<>>
    ELSE <<[parent |-> parent, node |-> Head(subs)]>>
         \o TreeNodes(Head(subs).Path, Head(subs).SubFolders)
         \o TreeNodes(parent, Tail(subs))

\* list holds, once each, the tasks the service had in the folders fs.
HoldsTasksOf(list, fs) ==
    /\ \A i, j \in DOMAIN list : list[i] = list[j] => i = j
    /\ {list[i] : i \in DOMAIN list}
           = {ParsedTask(res.pre.tasks, p) :
                  p \in {q \in DOMAIN res.pre.tasks : NativeParent(q) \in fs}}

\* C6: GetTaskFolder(`\`), no native call failing, returns a tree that mirrors
\* the hierarchy: each folder below the root is exactly one node, under the
\* node of its parent folder, named by its last segment, and each node, the
\* root included, lists exactly the tasks registered directly in its folder.
C6_TreeMirrorsHierarchy ==
    (res.op = "GetTaskFolder" /\ res.path = Root /\ res.fi = NoInject)
        => LET ns == TreeNodes(Root, res.r.tree.SubFolders)
           IN  /\ ~res.r.panic /\ res.r.err = nil
               /\ HoldsTasksOf(res.r.tree.RegisteredTasks, {Root})
               /\ {ns[i].node.Path : i \in DOMAIN ns} = res.pre.folders
               /\ \A i, j \in DOMAIN ns : ns[i].node.Path = ns[j].node.Path => i = j
               /\ \A i \in DOMAIN ns :
                     /\ ns[i].parent = NativeParent(ns[i].node.Path)
                     /\ ns[i].node.Name = NativeName(ns[i].node.Path)
                     /\ HoldsTasksOf(ns[i].node.RegisteredTasks, {ns[i].node.Path})

\* C6's case: \A\B and a sibling \B, a task in \A and one in \A\B.
C6_Witness ==
    /\ res.op = "GetTaskFolder" /\ res.path = Root /\ res.fi = NoInject
    /\ res.pre.folders = FolderUniverse
    /\ DOMAIN res.pre.tasks = {<<BS, "A", BS, "X">>, <<BS, "A", BS, "B", BS, "X">>}
    /\ res.r.tree.RegisteredTasks = <<>>
    /\ Len(res.r.tree.SubFolders) = 2
    /\ \E i \in 1..2 :
          LET a == res.r.tree.SubFolders[i]
          IN  /\ a.Path = <<BS, "A">>
              /\ Len(a.RegisteredTasks) = 1
              /\ Len(a.SubFolders) = 1
              /\ a.SubFolders[1].Path = <<BS, "A", BS, "B">>
              /\ Len(a.SubFolders[1].RegisteredTasks) = 1
              /\ a.SubFolders[1].SubFolders = <<>>

\* C7: GetRegisteredTasks, no native call failing, returns every task of the
\* hierarchy exactly once, a folder's own tasks before the tasks of the
\* folders below it (so the root's tasks first).
C7_EveryTaskOnceParentsFirst ==
    (res.op = "GetRegisteredTasks" /\ res.fi = NoInject)
        => LET list == res.r.list
           IN  /\ ~res.r.panic /\ res.r.err = nil
               /\ HoldsTasksOf(list, res.pre.folders \cup {Root})
               /\ \A i, j \in DOMAIN list :
                     LET f == NativeParent(list[i].Path)
                         g == NativeParent(list[j].Path)
                     IN  (f # g /\ AtOrBelow(g, f)) => i < j

\* C7's case: a task in the root, one in \A\B, and the sibling folder \B.
C7_Witness ==
    /\ res.op = "GetRegisteredTasks" /\ res.fi = NoInject
    /\ res.pre.folders = FolderUniverse
    /\ Len(res.r.list) = 2
    /\ res.r.list[1].Path = <<BS, "X">>
    /\ res.r.list[2].Path = <<BS, "A", BS, "B", BS, "X">>

\* C8: the tree GetTaskFolder(path) returns is rooted at the requested path:
\* its top node carries that path, for the root and for every other folder.
C8_TopNodeCarriesRequestedPath ==
    (res.op = "GetTaskFolder" /\ ~Malformed(res.path) /\ ~res.r.panic /\ res.r.err = nil)
        => res.r.tree.Path = res.path

\* C9: when the code decoded from a native failure is c, getTaskSchedulerError
\* returns ErrTargetUnsupported for 50, ErrConnectionFailure for 53 and for
\* 0x80070032, getRunningTaskError returns ErrRunningTaskCompleted for
\* 0x8004130B, and either returns the system error of code c otherwise.
C9_CodeMapping ==
    (tx.fn # "none" /\ tx.decoded[2] = nil)
        => LET c == tx.decoded[1]
           IN  IF tx.fn = "getTaskSchedulerError" /\ c = Code50
               THEN tx.out = ErrTargetUnsupported
               ELSE IF tx.fn = "getTaskSchedulerError" /\ c \in {Code53, Code80070032}
               THEN tx.out = ErrConnectionFailure
               ELSE IF tx.fn = "getRunningTaskError" /\ c = Code8004130B
               THEN tx.out = ErrRunningTaskCompleted
               ELSE tx.out = Errno(c)

\* C9's case: the service reports 0x80070032 in the EXCEPINFO of a failed call.
C9_Witness ==
    /\ tx.fn = "getTaskSchedulerError"
    /\ build = "errors.go"
    /\ tx.in = NativeErr(Code80070032)
    /\ tx.decoded = <<Code80070032, nil>>
    /\ tx.out = ErrConnectionFailure

\* The native call of the last operation that the injected failure hit.
InjectedCall ==
    LET log == res.r.log
        i == CHOOSE k \in DOMAIN log :
                 IsCall(log[k]) /\ NCalls(SubSeq(log, 1, k)) = res.fi.at
    IN  log[i]

\* C10: when the parse of a running task fails with 0x8004130B, the error
\* GetRunningTasks returns is ErrRunningTaskCompleted, and no list.
C10_VanishedTaskIsDistinguished ==
    (/\ res.op = "GetRunningTasks"
     /\ res.fi.at > 0
     /\ res.fi.f = NativeErr(Code8004130B)
     /\ InjectedCall.m = "parseRunningTask")
        => res.r.err = ErrRunningTaskCompleted /\ res.r.list = <<>>

\* C11: when the native Connect call fails with a failure whose code is c,
\* the error ConnectWithOptions returns is the typed error of c:
\* ErrConnectionFailure for 53 and 0x80070032, ErrTargetUnsupported for 50,
\* the system error of code c otherwise.
C11_ConnectReturnsTypedError ==
    (/\ cres.op = "Connect"
     /\ cres.failAt = "Connect"
     /\ getOLEErrorCode(build, cres.f)[2] = nil)
        => LET c == getOLEErrorCode(build, cres.f)[1]
           IN  cres.err = IF c = Code50 THEN ErrTargetUnsupported
                          ELSE IF c \in {Code53, Code80070032} THEN ErrConnectionFailure
                          ELSE Errno(c)

\* The error is a native failure as the boundary produced it, or a message
\* formatted from one, and not what a translator made of it.
Untranslated(e) == e.kind = "raw" \/ \E i \in DOMAIN e.text : e.text[i] = "raw"

\* C12: no public operation, ConnectWithOptions included, returns a native
\* failure that did not pass through getTaskSchedulerError or
\* getRunningTaskError.
C12_NoRawNativeError == ~Untranslated(res.r.err) /\ ~Untranslated(cres.err)

\* The folder of the last call held a task or a subfolder when it was called.
HadContent ==
    \/ NativeTasksIn(res.pre.tasks, res.path) # {}
    \/ NativeChildFolders(res.pre.folders, res.path) # {}

\* C13: DeleteFolder without deleteRecursively, on a folder that holds a task
\* or a subfolder, returns false, issues no DeleteTask and no DeleteFolder
\* call and leaves the service as it was, with no error when no native call
\* fails; on an empty folder, when no native call fails, it issues exactly one
\* DeleteFolder call, for that folder, returns true, and the folder is gone.
C13_NonRecursiveDeleteFolder ==
    (/\ res.op = "DeleteFolder"
     /\ ~res.recursive
     /\ res.path \in {Root} \cup res.pre.folders)
        => IF HadContent
           THEN /\ ~res.r.flag
                /\ CallsOf(res.r.log, "DeleteTask") = {}
                /\ CallsOf(res.r.log, "DeleteFolder") = {}
                /\ Unchanged
                /\ res.fi = NoInject => res.r.err = nil /\ ~res.r.panic
           ELSE (res.fi = NoInject /\ res.path # Root)
                    => /\ res.r.flag
                       /\ res.r.err = nil /\ ~res.r.panic
                       /\ Cardinality(CallsOf(res.r.log, "DeleteFolder")) = 1
                       /\ \A i \in CallsOf(res.r.log, "DeleteFolder") :
                              res.r.log[i].path = res.path
                       /\ CallsOf(res.r.log, "DeleteTask") = {}
                       /\ res.r.folders = res.pre.folders \ {res.path}
                       /\ res.r.tasks = res.pre.tasks

\* The empty folder \A\B was deleted without deleteRecursively, and its
\* parent is still there.
C13_Witness ==
    /\ res.op = "DeleteFolder"
    /\ ~res.recursive
    /\ res.fi = NoInject
    /\ res.path = <<BS, "A", BS, "B">>
    /\ ~HadContent
    /\ res.r.flag
    /\ <<BS, "A">> \in res.r.folders

\* The last call was one of the three enumerations and a native call or a
\* parse made in it failed: the injected failure was hit, or the service
\* refused the GetFolder of a folder it does not have.
EnumerationFailed ==
    /\ res.op \in {"GetRegisteredTasks", "GetRunningTasks", "GetTaskFolder"}
    /\ \/ res.fi # NoInject
       \/ /\ res.op = "GetTaskFolder"
          /\ ~Malformed(res.path)
          /\ NativeFolder(res.pre.folders, res.path) = <<>>

\* C14: whenever a native call or a task parse fails during GetRegisteredTasks,
\* GetRunningTasks or GetTaskFolder, the operation returns an error, with an
\* empty list and the zero TaskFolder.
C14_EnumerationAllOrNothing ==
    EnumerationFailed
        => /\ ~res.r.panic
           /\ res.r.err # nil
           /\ res.r.list = <<>>
           /\ res.r.tree = ZeroFolder

\* C15: when ConnectWithOptions returns an error from a step after initialize
\* (the native Connect, os.Hostname, user.Current, the GetFolder of the root
\* folder), the service handle it acquired has been released and its context
\* torn down: at most the contexts of the earlier connections are still open.
C15_FailedConnectTearsDown ==
    (/\ cres.op = "Connect"
     /\ cres.err # nil
     /\ cres.failAt \in {"Connect", "Hostname", "Current", "GetFolder"})
        => /\ handles[<<ctx.connects, "svc">>].acq
           /\ handles[<<ctx.connects, "svc">>].rel = 1
           /\ ctx.inits - ctx.teardowns <= ctx.connects - 1

\* How many more times than released the handle of the given kind on path p
\* was acquired within the first k entries of the log.
HeldCount(log, k, kind, p) ==
    Cardinality({i \in 1..k : log[i] = Ev("Acquire", kind, p)})
        - Cardinality({i \in 1..k : log[i] = Ev("Release", kind, p)})

\* The folders whose handle is held after the first k entries of the log.
HeldFolders(log, k) ==
    {g \in FolderUniverse \cup {Root} : HeldCount(log, k, "folder", g) > 0}

\* The number of folders on the way from the root folder down to folder g.
Depth(g) == Cardinality({i \in DOMAIN g : g[i] = BS})

\* C16: at every point of GetRegisteredTasks and GetTaskFolder no handle is
\* held twice and the folder handles held are those of folders on one path
\* down the hierarchy, each at or above the one held last, so no more of them
\* are held than the walk is deep; when the operation returns, by an error or
\* a panic as well, every folder handle and every collection handle it
\* acquired has been released.
C16_FolderHandlesScoped ==
    res.op \in {"GetRegisteredTasks", "GetTaskFolder"}
        => LET log == res.r.log
           IN  /\ \A k \in 0..Len(log) :
                    /\ \A kind \in {"folder", "tasks", "folders"}, g \in FolderUniverse \cup {Root} :
                           HeldCount(log, k, kind, g) \in {0, 1}
                    /\ \A g, h \in HeldFolders(log, k) : AtOrBelow(g, h) \/ AtOrBelow(h, g)
                    /\ \A g \in HeldFolders(log, k) :
                           Cardinality(HeldFolders(log, k)) <= Depth(g) + 1
               /\ \A kind \in {"folder", "tasks", "folders"}, g \in FolderUniverse \cup {Root} :
                      HeldCount(log, Len(log), kind, g) = 0

\* GetRegisteredTasks failed two folders down, at the GetTasks of \A\B, while
\* it held the handles of \A and \A\B, and returned the error.
C16_Witness ==
    /\ res.op = "GetRegisteredTasks"
    /\ res.fi # NoInject
    /\ InjectedCall = Ev("GetTasks", "folder", <<BS, "A", BS, "B">>)
    /\ res.r.err # nil
    /\ \E k \in DOMAIN res.r.log :
           HeldFolders(res.r.log, k) = {<<BS, "A">>, <<BS, "A", BS, "B">>}

\* The entries of the log that are the native delete of the folder or task p.
DeletesOf(log, m, p) == {i \in CallsOf(log, m) : log[i].path = p}

\* C17: in a DeleteFolder with deleteRecursively, the native delete of a folder
\* F is issued only after a DeleteTask of every task that was in F and a
\* DeleteFolder of every subfolder that was in F, each issued once; the delete
\* of the folder DeleteFolder was called for is its last native call.
C17_DeletesBottomUp ==
    (res.op = "DeleteFolder" /\ res.recursive)
        => LET log == res.r.log
           IN  \A i \in CallsOf(log, "DeleteFolder") :
                   /\ \A p \in NativeTasksIn(res.pre.tasks, log[i].path) :
                          /\ Cardinality(DeletesOf(log, "DeleteTask", p)) = 1
                          /\ \A j \in DeletesOf(log, "DeleteTask", p) : j < i
                   /\ \A g \in NativeChildFolders(res.pre.folders, log[i].path) :
                          /\ Cardinality(DeletesOf(log, "DeleteFolder", g)) = 1
                          /\ \A j \in DeletesOf(log, "DeleteFolder", g) : j < i
                   /\ log[i].path = res.path
                          => \A j \in DOMAIN log : j > i => ~IsCall(log[j])

\* DeleteFolder(\A, true) deleted \A, which held a task and the folder \A\B
\* with a task of its own.
C17_Witness ==
    /\ res.op = "DeleteFolder" /\ res.recursive
    /\ res.path = <<BS, "A">>
    /\ res.r.flag
    /\ <<BS, "A", BS, "B">> \in res.pre.folders
    /\ <<BS, "A", BS, "X">> \in DOMAIN res.pre.tasks
    /\ <<BS, "A", BS, "B", BS, "X">> \in DOMAIN res.pre.tasks
    /\ Cardinality(CallsOf(res.r.log, "DeleteFolder")) = 2
    /\ Cardinality(CallsOf(res.r.log, "DeleteTask")) = 2

\* C18: when DeleteFolder(path, true) returns true, the folder, every folder
\* below it and every task in them are gone from the service, and every folder
\* and task outside that subtree is as it was.
C18_RecursiveDeleteRemovesSubtree ==
    (res.op = "DeleteFolder" /\ res.recursive /\ res.r.flag)
        => /\ res.r.err = nil /\ ~res.r.panic
           /\ res.path \in res.pre.folders
           /\ res.r.folders = {g \in res.pre.folders : ~AtOrBelow(g, res.path)}
           /\ DOMAIN res.r.tasks = {p \in DOMAIN res.pre.tasks : ~AtOrBelow(p, res.path)}
           /\ \A p \in DOMAIN res.r.tasks : res.r.tasks[p] = res.pre.tasks[p]

\* DeleteFolder(\A, true) returned true on a service that held \A\B with a
\* task in it and, outside \A, the folder \B with a task in it.
C18_Witness ==
    /\ res.op = "DeleteFolder" /\ res.recursive
    /\ res.path = <<BS, "A">>
    /\ res.r.flag
    /\ <<BS, "A", BS, "B", BS, "X">> \in DOMAIN res.pre.tasks
    /\ <<BS, "B", BS, "X">> \in DOMAIN res.pre.tasks
    /\ res.r.folders = {<<BS, "B">>}
    /\ DOMAIN res.r.tasks = {<<BS, "B", BS, "X">>}

\* A RegisterTaskDefinition call of the last operation succeeded: the
\* operation went on to another native call after it.
RegisterSucceeded ==
    \E i \in CallsOf(res.r.log, "RegisterTaskDefinition") :
        \E j \in DOMAIN res.r.log : j > i /\ IsCall(res.r.log[j])

\* The last call was a CreateTaskEx of a task whose folder did not exist, with
\* a definition that passes validation, and no native call failed but the
\* lookup of the missing folder.
CreateInMissingFolder ==
    /\ res.op = "CreateTaskEx"
    /\ ~Malformed(res.path)
    /\ folderPathOf(res.path) # <<>>
    /\ folderPathOf(res.path) \notin res.pre.folders
    /\ validateDefinition(res.def) = nil
    /\ res.fi = NoInject

\* CreateTaskEx in a missing folder creates the folder, then registers once,
\* and returns the new task with the flag true.
CreatesFolderThenRegisters ==
    CreateInMissingFolder
        => LET log == res.r.log
           IN  /\ Cardinality(CallsOf(log, "CreateFolder")) = 1
               /\ Cardinality(CallsOf(log, "RegisterTaskDefinition")) = 1
               /\ \A i \in CallsOf(log, "CreateFolder"), j \in CallsOf(log, "RegisterTaskDefinition") :
                      /\ i < j
                      /\ log[i].path = folderPathOf(res.path)
                      /\ log[j] = Ev("RegisterTaskDefinition", TASK_CREATE, res.path)
               /\ res.r.err = nil /\ ~res.r.panic
               /\ res.r.flag
               /\ res.path \in DOMAIN res.r.tasks
               /\ res.r.task = ParsedTask(res.r.tasks, res.path)

\* C19: CreateTaskEx of a task whose folder does not exist creates the folder
\* before the register call, registers exactly once and returns the new task
\* with the flag true; in every outcome the flag is true exactly when the
\* register call of the invocation succeeded; every error return has the
\* flag false.
C19_CreatedFlagTellsRegistration ==
    res.op = "CreateTaskEx"
        => /\ CreatesFolderThenRegisters
           /\ res.r.flag <=> RegisterSucceeded
           /\ res.r.err # nil => ~res.r.flag

\* C20: UpdateTaskEx with a path that starts with the separator and a
\* definition that passes validation issues no GetTask, GetFolder,
\* CreateFolder, DeleteTask or DeleteFolder call, and exactly one
\* RegisterTaskDefinition call, with TASK_UPDATE and the path, unless the
\* NewTask call or the marshalling before it failed, when it issues none.
C20_UpdateOnlyRegisters ==
    (/\ res.op = "UpdateTaskEx"
     /\ ~Malformed(res.path)
     /\ validateDefinition(res.def) = nil)
        => LET log == res.r.log
               reg == CallsOf(log, "RegisterTaskDefinition")
               early == res.fi # NoInject /\ InjectedCall.m \in {"NewTask", "fillDefinitionObj"}
           IN  /\ \A m \in {"GetTask", "GetFolder", "CreateFolder", "DeleteTask", "DeleteFolder"} :
                      CallsOf(log, m) = {}
               /\ \A i \in reg : log[i] = Ev("RegisterTaskDefinition", TASK_UPDATE, res.path)
               /\ Cardinality(reg) = IF early THEN 0 ELSE 1

\* UpdateTaskEx replaced the principal of a task that existed and returned it.
C20_Witness ==
    /\ res.op = "UpdateTaskEx"
    /\ res.r.err = nil
    /\ res.path \in DOMAIN res.pre.tasks
    /\ res.pre.tasks[res.path].UserID # <<"b">>
    /\ res.r.tasks[res.path].UserID = <<"b">>
    /\ res.r.task.UserID = <<"b">>
    /\ Cardinality(CallsOf(res.r.log, "RegisterTaskDefinition")) = 1

\* C21: the code extracted from a native failure is its direct code when that
\* code is not zero, else the code of its nested EXCEPINFO when it has one; so
\* a failure with direct code 50 or 53 and no sub-error is translated by
\* getTaskSchedulerError to ErrTargetUnsupported or ErrConnectionFailure.
C21_TwoStepDecode ==
    (tx.fn # "none" /\ tx.in.ole)
        => /\ tx.in.code # Code0 => tx.decoded = <<tx.in.code, nil>>
           /\ (tx.in.code = Code0 /\ tx.in.sub = "EXCEPINFO")
                  => tx.decoded = <<tx.in.scode, nil>>
           /\ (tx.fn = "getTaskSchedulerError" /\ tx.in.sub = "nil")
                  => /\ tx.in.code = Code50 => tx.out = ErrTargetUnsupported
                     /\ tx.in.code = Code53 => tx.out = ErrConnectionFailure

\* The failure holds no code other than zero: it is no OleError, or its direct
\* code is zero and its sub-error is absent, is no EXCEPINFO, or has SCODE zero.
NoNonZeroCode(f) ==
    \/ ~f.ole
    \/ /\ f.code = Code0
       /\ f.sub # "EXCEPINFO" \/ f.scode = Code0

\* C22: a translator never returns the system error of code 0, and when the
\* failure holds no code other than zero the extraction reports an error and
\* the translator returns that extraction failure.
C22_NoDecodeOfZero ==
    tx.fn # "none"
        => /\ tx.out # Errno(Code0)
           /\ NoNonZeroCode(tx.in)
                  => /\ tx.decoded[2] # nil
                     /\ tx.out = ExtractionFailure(build,
                                     IF tx.fn = "getTaskSchedulerError"
                                     THEN "task scheduler error: (unable to get specific error code: )"
                                     ELSE "running task error: (unable to get specific error code: )",
                                     tx.decoded[2])

\* Exactly one of UserID and GroupID of the definition is set.
OnePrincipal(d) == (d.UserID # <<>>) # (d.GroupID # <<>>)

\* C23: every definition CreateTaskEx or UpdateTaskEx hands to the marshaller
\* has exactly one of UserID and GroupID set: the caller's definition with
\* domain\user of the connection as UserID when the caller set neither, the
\* caller's definition as it is when the caller set one; it is handed over
\* once, when the marshaller is called, and the caller's definition stays
\* as the caller made it.
C23_OnePrincipalHanded ==
    res.op \in {"CreateTaskEx", "UpdateTaskEx"}
        => /\ Len(res.r.handed) = Cardinality(CallsOf(res.r.log, "fillDefinitionObj"))
           /\ Len(res.r.handed) <= 1
           /\ \A i \in DOMAIN res.r.handed :
                  LET d == res.r.handed[i]
                  IN  /\ OnePrincipal(d)
                      /\ d.Actions = res.def.Actions
                      /\ (res.def.UserID = <<>> /\ res.def.GroupID = <<>>)
                             => /\ d.UserID = t.connectedDomain \o <<BS>> \o t.connectedUser
                                /\ d.GroupID = <<>>
                                /\ res.def.UserID = <<>>
                      /\ OnePrincipal(res.def) => d = res.def

\* CreateTaskEx was called with neither identity set and registered the task
\* under the connection's identity H\u.
C23_Witness ==
    /\ res.op = "CreateTaskEx"
    /\ res.def = Definition(1, <<>>, <<>>)
    /\ res.r.handed = <<Definition(1, <<"H", BS, "u">>, <<>>)>>
    /\ res.r.err = nil
    /\ res.r.task.UserID = <<"H", BS, "u">>

\* The handle is one the program acquired and has not released.
HandleHeld(h) == h # NilHandle /\ handles[h].acq /\ handles[h].rel = 0

\* C24: in every state of a TaskService that Connect and Disconnect lead to,
\* isConnected implies isInitialized; both are true after a Connect that
\* returned no error and both false after a Disconnect; and its service
\* handle and its root folder handle are held exactly while isConnected.
C24_ConnectionFlagsAndHandles ==
    /\ t.isConnected => t.isInitialized
    /\ (cres.op = "Connect" /\ cres.err = nil) => (t.isConnected /\ t.isInitialized)
    /\ cres.op = "Disconnect" => (~t.isConnected /\ ~t.isInitialized)
    /\ HandleHeld(t.taskServiceObj) <=> t.isConnected
    /\ HandleHeld(t.rootFolderObj) <=> t.isConnected

\* A second Connect succeeded after the first connection was disconnected:
\* the first connection's handles are released, the second's are held.
C24_Witness ==
    /\ cres.op = "Connect" /\ cres.err = nil
    /\ ctx.connects = 2
    /\ t.isConnected /\ t.isInitialized
    /\ t.taskServiceObj = <<2, "svc">> /\ t.rootFolderObj = <<2, "root">>
    /\ handles[<<1, "svc">>].rel = 1 /\ handles[<<1, "root">>].rel = 1
    /\ HandleHeld(<<2, "svc">>) /\ HandleHeld(<<2, "root">>)

====
